---- MODULE Spec2Model ----
(***************************************************************************)
(* A model of src/app.py: the ArtworkPDFExtractor class (extract_images,   *)
(* extract_text, identify_artwork_info) and the Streamlit script main().   *)
(*                                                                         *)
(* Text is a sequence of Unicode code points, so that str.lower() and the  *)
(* substring test `mot in sent.text.lower()` are computed character by     *)
(* character.  A parsed document is a sequence of pages; a page carries    *)
(* the text page.get_text() returns and the xrefs page.get_images() lists. *)
(***************************************************************************)
EXTENDS Naturals, Sequences, FiniteSets

\* ------------------------------------------------------------ bounds
\* Pages of a text-bearing document.
MaxTextPages == 2
\* Pages of an image-bearing document.
MaxImagePages == 2
\* Entries of one page's image listing.
MaxImgs == 2

\* ------------------------------------------------------------ characters
\* str.lower() on one code point (Basic Latin and Latin-1 letters).
LowerChar(c) ==
    IF c \in 65..90 THEN c + 32
    ELSE IF c \in (192..222) \ {215} THEN c + 32
    ELSE c

\* str.lower() on a string.
Lower(s) == [i \in 1..Len(s) |-> LowerChar(s[i])]

IsUpper(c) == c \in (65..90) \cup ((192..222) \ {215})

IsLetter(c) == IsUpper(c) \/ c \in (97..122) \cup ((223..255) \ {247})

\* Python's `mot in s` for strings: mot occurs in s as a contiguous run.
\* Scans the start offsets left to right, as str.__contains__ does.
RECURSIVE FindFrom(_, _, _)
FindFrom(mot, s, i) ==
    IF i + Len(mot) - 1 > Len(s) THEN FALSE
    ELSE IF SubSeq(s, i, i + Len(mot) - 1) = mot THEN TRUE
    ELSE FindFrom(mot, s, i + 1)

StrIn(mot, s) == FindFrom(mot, s, 1)

\* any(mot in s for mot in mots), mots a list: left to right, stops at a hit.
RECURSIVE AnyFrom(_, _, _)
AnyFrom(mots, s, k) ==
    IF k > Len(mots) THEN FALSE
    ELSE IF StrIn(mots[k], s) THEN TRUE
    ELSE AnyFrom(mots, s, k + 1)

AnyIn(mots, s) == AnyFrom(mots, s, 1)

\* ['date', 'année', 'créé en']
DateMots ==
    << <<100, 97, 116, 101>>,
       <<97, 110, 110, 233, 101>>,
       <<99, 114, 233, 233, 32, 101, 110>> >>

\* ['technique', 'huile', 'aquarelle', 'acrylique']
TechniqueMots ==
    << <<116, 101, 99, 104, 110, 105, 113, 117, 101>>,
       <<104, 117, 105, 108, 101>>,
       <<97, 113, 117, 97, 114, 101, 108, 108, 101>>,
       <<97, 99, 114, 121, 108, 105, 113, 117, 101>> >>

\* ------------------------------------------------------------ documents
\* The xrefs a page listing may name; the bytes stored under an xref outside
\* Decodable are not an image PIL can identify.
Xrefs == {1, 2, 3}
Decodable == {1, 2}

\* Page texts: "Huile.", "Année Huile.", "Da", "te."
PageTexts ==
    { <<72, 117, 105, 108, 101, 46>>,
      <<65, 110, 110, 233, 101, 32, 72, 117, 105, 108, 101, 46>>,
      <<68, 97>>,
      <<116, 101, 46>> }

SeqsUpTo(S, n) == UNION {[1..k -> S] : k \in 0..n}

\* A page's listing: any run of decodable xrefs, or one of three listings
\* holding the undecodable one (first, last, alone).
ImageListings == SeqsUpTo(Decodable, MaxImgs) \cup {<<3>>, <<1, 3>>, <<3, 2>>}

TextPages == {[text |-> t, images |-> <<>>] : t \in PageTexts}
ImagePages == {[text |-> <<>>, images |-> l] : l \in ImageListings}
\* One-page documents with both text and images.
MixedPages == {[text |-> t, images |-> <<x>>] : t \in PageTexts, x \in Xrefs}

Documents ==
    SeqsUpTo(TextPages, MaxTextPages)
        \cup SeqsUpTo(ImagePages, MaxImagePages)
        \cup {<<p>> : p \in MixedPages}

\* What st.file_uploader returns: None, or a file whose bytes fitz either
\* parses into pages or rejects.
NoFile == [given |-> FALSE, valid |-> FALSE, pages |-> <<>>]
Uploads ==
    {NoFile, [given |-> TRUE, valid |-> FALSE, pages |-> <<>>]}
        \cup {[given |-> TRUE, valid |-> TRUE, pages |-> d] : d \in Documents}

\* ------------------------------------------------------------ extract_text
\* Variant: a line feed (10) is put after every page.
RECURSIVE ExtractTextWithNewline(_, _, _)
ExtractTextWithNewline(doc, k, full_text) ==
    IF k > Len(doc) THEN full_text
    ELSE ExtractTextWithNewline(doc, k + 1, (full_text \o doc[k].text) \o <<10>>)

RECURSIVE ExtractTextFrom(_, _, _)
ExtractTextFrom(doc, k, full_text) ==
    IF k > Len(doc) THEN full_text
    ELSE ExtractTextFrom(doc, k + 1, full_text \o doc[k].text)

extract_text(doc) == ExtractTextFrom(doc, 1, <<>>)

\* ------------------------------------------------------------ extract_images
\* Image.open(io.BytesIO(document.extract_image(xref)['image']))
PilImage(xref) == [pil |-> xref]

\* Variant: an xref already extracted is skipped.
RECURSIVE PageImagesSkipSeen(_, _, _)
PageImagesSkipSeen(listing, j, acc) ==
    IF acc.raised \/ j > Len(listing) THEN acc
    ELSE IF listing[j] \notin Decodable
         THEN [acc EXCEPT !.raised = TRUE]
    ELSE IF \E i \in 1..Len(acc.images) : acc.images[i] = PilImage(listing[j])
         THEN PageImagesSkipSeen(listing, j + 1, acc)
    ELSE PageImagesSkipSeen(listing, j + 1,
             [acc EXCEPT !.images = Append(@, PilImage(listing[j]))])

\* The inner loop over one page's listing; raised is set when Image.open
\* cannot identify the bytes, and the loop stops there.
RECURSIVE PageImagesFrom(_, _, _)
PageImagesFrom(listing, j, acc) ==
    IF acc.raised \/ j > Len(listing) THEN acc
    ELSE IF listing[j] \notin Decodable
         THEN [acc EXCEPT !.raised = TRUE]
         ELSE PageImagesFrom(listing, j + 1,
                  [acc EXCEPT !.images = Append(@, PilImage(listing[j]))])

RECURSIVE ExtractImagesFrom(_, _, _)
ExtractImagesFrom(doc, page_num, acc) ==
    IF acc.raised \/ page_num > Len(doc) THEN acc
    ELSE ExtractImagesFrom(doc, page_num + 1,
             PageImagesFrom(doc[page_num].images, 1, acc))

extract_images(doc) == ExtractImagesFrom(doc, 1, [raised |-> FALSE, images |-> <<>>])

\* ------------------------------------------------------------ the NLP model
\* self.nlp(text) is spaCy's: the model takes any annotation it may return.
\* Sentences cover the text and end at its end or after a full stop (46);
\* entities are capitalised words, each with a label or left untagged.
Labels == {"PER", "WORK_OF_ART", "LOC"}

InnerStops(text) == {i \in 1..Len(text) : text[i] = 46 /\ i < Len(text)}

SetMin(S) == CHOOSE m \in S : \A n \in S : m <= n

RECURSIVE SplitFrom(_, _, _)
SplitFrom(text, start, cuts) ==
    IF start > Len(text) THEN <<>>
    ELSE LET stop == SetMin({c \in cuts : c >= start} \cup {Len(text)})
         IN  <<SubSeq(text, start, stop)>> \o SplitFrom(text, stop + 1, cuts)

WordStarts(text) ==
    {i \in 1..Len(text) : IsUpper(text[i]) /\ (i = 1 \/ ~IsLetter(text[i - 1]))}

WordStop(text, i) ==
    SetMin({j \in i..Len(text) : j = Len(text) \/ ~IsLetter(text[j + 1])})

RECURSIVE EntsFrom(_, _, _)
EntsFrom(text, i, tag) ==
    IF i > Len(text) THEN <<>>
    ELSE IF i \in DOMAIN tag /\ tag[i] \in Labels
         THEN <<[text |-> SubSeq(text, i, WordStop(text, i)), label_ |-> tag[i]]>>
                  \o EntsFrom(text, i + 1, tag)
         ELSE EntsFrom(text, i + 1, tag)

NlpDocs(text) ==
    {[ents |-> EntsFrom(text, 1, tag), sents |-> SplitFrom(text, 1, cuts)] :
        tag \in [WordStarts(text) -> Labels \cup {"O"}],
        cuts \in SUBSET InnerStops(text)}

\* ------------------------------------------------------------ identify_artwork_info
ErreurPayload == [erreur |-> "Modèle NLP non disponible"]

\* Variant: the dimensions key is not declared.
EmptyInfoFourKeys ==
    [artistes |-> {}, titres |-> {}, dates |-> {}, techniques |-> {}]

EmptyInfo ==
    [artistes |-> {}, titres |-> {}, dates |-> {}, techniques |-> {}, dimensions |-> {}]

\* Variant: a plain else in place of the elif on WORK_OF_ART.
RECURSIVE EntityPassElse(_, _, _)
EntityPassElse(info, ents, k) ==
    IF k > Len(ents) THEN info
    ELSE IF ents[k].label_ = "PER"
         THEN EntityPassElse([info EXCEPT !.artistes = @ \cup {ents[k].text}], ents, k + 1)
    ELSE EntityPassElse([info EXCEPT !.titres = @ \cup {ents[k].text}], ents, k + 1)

\* for ent in doc.ents: if PER ... elif WORK_OF_ART ...
RECURSIVE EntityPass(_, _, _)
EntityPass(info, ents, k) ==
    IF k > Len(ents) THEN info
    ELSE IF ents[k].label_ = "PER"
         THEN EntityPass([info EXCEPT !.artistes = @ \cup {ents[k].text}], ents, k + 1)
    ELSE IF ents[k].label_ = "WORK_OF_ART"
         THEN EntityPass([info EXCEPT !.titres = @ \cup {ents[k].text}], ents, k + 1)
    ELSE EntityPass(info, ents, k + 1)

\* Variant: the techniques test is an elif of the dates test.
SentenceStepElif(info, sent) ==
    IF AnyIn(DateMots, Lower(sent))
    THEN [info EXCEPT !.dates = @ \cup {sent}]
    ELSE IF AnyIn(TechniqueMots, Lower(sent))
         THEN [info EXCEPT !.techniques = @ \cup {sent}]
         ELSE info

\* The body of `for sent in doc.sents`: two independent ifs.
SentenceStep(info, sent) ==
    LET a == IF AnyIn(DateMots, Lower(sent))
             THEN [info EXCEPT !.dates = @ \cup {sent}]
             ELSE info
    IN  IF AnyIn(TechniqueMots, Lower(sent))
        THEN [a EXCEPT !.techniques = @ \cup {sent}]
        ELSE a

RECURSIVE SentencePass(_, _, _)
SentencePass(info, sents, k) ==
    IF k > Len(sents) THEN info
    ELSE SentencePass(SentenceStep(info, sents[k]), sents, k + 1)

\* Variant: the `if not self.nlp` guard is missing.
identify_artwork_info_NoGuard(nlp_loaded, doc) ==
    SentencePass(EntityPass(EmptyInfo, doc.ents, 1), doc.sents, 1)

\* nlp is the loaded model or None; doc is what self.nlp(text) returned.
identify_artwork_info(nlp_loaded, doc) ==
    IF ~nlp_loaded THEN ErreurPayload
    ELSE SentencePass(EntityPass(EmptyInfo, doc.ents, 1), doc.sents, 1)

\* ------------------------------------------------------------ main: the image columns
Min(a, b) == IF a <= b THEN a ELSE b

\* Variant: at most two columns.
NumColumnsTwo(n) == Min(2, n + 1)

\* st.columns(min(3, len(images) + 1)): the number of columns created.
NumColumns(n) == Min(3, n + 1)

\* The column subscript of `with cols[i % 3]`, i counted from 0.
ColumnIndex(i) == i % 3

\* for i, img in enumerate(images): with cols[i % 3]: st.image(img, f"Image {i+1}")
\* cols[...] raises IndexError past the columns created, and the loop stops.
RECURSIVE ShowImagesFrom(_, _, _, _)
ShowImagesFrom(imgs, i, ncols, acc) ==
    IF acc.raised \/ i >= Len(imgs) THEN acc
    ELSE IF ColumnIndex(i) >= ncols
         THEN [acc EXCEPT !.raised = TRUE]
         ELSE ShowImagesFrom(imgs, i + 1, ncols,
                  [acc EXCEPT !.shown = Append(@,
                      [image |-> imgs[i + 1], caption |-> i + 1, column |-> ColumnIndex(i)])])

show_images(imgs) ==
    ShowImagesFrom(imgs, 0, NumColumns(Len(imgs)), [raised |-> FALSE, shown |-> <<>>])

\* ------------------------------------------------------------ state
VARIABLES
    uploaded_file,    \* what st.file_uploader returned for this run of the script
    model_installed,  \* whether spacy.load('fr_core_news_md') finds the model
    pc,               \* main's position
    document,         \* extractor.document: the parsed pages
    doc_open,         \* whether the fitz document handle is open
    nlp_loaded,       \* extractor.nlp is not None
    full_text,        \* main's local full_text
    doc_nlp,          \* the annotation self.nlp(text) returned
    artwork_info,     \* main's local artwork_info
    images,           \* main's local images
    bound,            \* main's locals that have been assigned
    shown,            \* the widgets emitted so far, in order
    shown_text,       \* the values given to st.text_area
    shown_json,       \* the values given to st.json
    shown_images,     \* the st.image calls: image, caption ordinal, column
    error             \* the exception that left main, "" when none

vars ==
    <<uploaded_file, model_installed, pc, document, doc_open, nlp_loaded, full_text,
      doc_nlp, artwork_info, images, bound, shown, shown_text, shown_json,
      shown_images, error>>

NoNlpDoc == [ents |-> <<>>, sents |-> <<>>]

Init ==
    /\ uploaded_file \in Uploads
    /\ model_installed \in BOOLEAN
    /\ pc = "main"
    /\ document = <<>>
    /\ doc_open = FALSE
    /\ nlp_loaded = FALSE
    /\ full_text = <<>>
    /\ doc_nlp = NoNlpDoc
    /\ artwork_info = EmptyInfo
    /\ images = <<>>
    /\ bound = {}
    /\ shown = <<>>
    /\ shown_text = <<>>
    /\ shown_json = <<>>
    /\ shown_images = <<>>
    /\ error = ""

\* main, no file uploaded: title and uploader only.
MainNoUpload ==
    /\ pc = "main"
    /\ ~uploaded_file.given
    /\ shown' = <<"title", "file_uploader">>
    /\ pc' = "returned"
    /\ UNCHANGED <<uploaded_file, model_installed, document, doc_open, nlp_loaded,
                   full_text, doc_nlp, artwork_info, images, bound, shown_text,
                   shown_json, shown_images, error>>

\* Variant: the failure to open is caught and an empty document stands in.
OpenFailsSwallowed ==
    /\ pc = "main"
    /\ uploaded_file.given
    /\ ~uploaded_file.valid
    /\ shown' = <<"title", "file_uploader", "header">>
    /\ bound' = bound \cup {"extractor"}
    /\ pc' = "extract_text"
    /\ UNCHANGED <<uploaded_file, model_installed, document, doc_open, nlp_loaded,
                   full_text, doc_nlp, artwork_info, images, shown_text,
                   shown_json, shown_images, error>>

\* fitz.open rejects the bytes: the exception leaves __init__ and main.
OpenFails ==
    /\ pc = "main"
    /\ uploaded_file.given
    /\ ~uploaded_file.valid
    /\ shown' = <<"title", "file_uploader">>
    /\ pc' = "raised"
    /\ error' = "open"
    /\ UNCHANGED <<uploaded_file, model_installed, document, doc_open, nlp_loaded,
                   full_text, doc_nlp, artwork_info, images, bound, shown_text,
                   shown_json, shown_images>>

\* ArtworkPDFExtractor(pdf_bytes): open the document, load the model or warn.
Construct ==
    /\ pc = "main"
    /\ uploaded_file.given
    /\ uploaded_file.valid
    /\ document' = uploaded_file.pages
    /\ doc_open' = TRUE
    /\ nlp_loaded' = model_installed
    /\ shown' = <<"title", "file_uploader">>
                    \o (IF model_installed THEN <<>> ELSE <<"warning">>)
                    \o <<"header">>
    /\ bound' = bound \cup {"extractor"}
    /\ pc' = "extract_text"
    /\ UNCHANGED <<uploaded_file, model_installed, full_text, doc_nlp, artwork_info,
                   images, shown_text, shown_json, shown_images, error>>

ExtractText ==
    /\ pc = "extract_text"
    /\ shown' = Append(shown, "subheader")
    /\ full_text' = extract_text(document)
    /\ bound' = bound \cup {"full_text"}
    /\ pc' = "show_text"
    /\ UNCHANGED <<uploaded_file, model_installed, document, doc_open, nlp_loaded,
                   doc_nlp, artwork_info, images, shown_text, shown_json,
                   shown_images, error>>

\* Variant: the text area is not emitted at this point.
ShowTextDeferred ==
    /\ pc = "show_text"
    /\ pc' = "classify"
    /\ UNCHANGED <<uploaded_file, model_installed, document, doc_open, nlp_loaded,
                   full_text, doc_nlp, artwork_info, images, bound, shown, shown_text,
                   shown_json, shown_images, error>>

ShowText ==
    /\ pc = "show_text"
    /\ shown' = Append(shown, "text_area")
    /\ shown_text' = Append(shown_text, full_text)
    /\ pc' = "classify"
    /\ UNCHANGED <<uploaded_file, model_installed, document, doc_open, nlp_loaded,
                   full_text, doc_nlp, artwork_info, images, bound, shown_json,
                   shown_images, error>>

Classify ==
    /\ pc = "classify"
    /\ shown' = Append(shown, "subheader")
    /\ \E d \in (IF nlp_loaded THEN NlpDocs(full_text) ELSE {NoNlpDoc}) :
          /\ doc_nlp' = d
          /\ artwork_info' = identify_artwork_info(nlp_loaded, d)
    /\ bound' = bound \cup {"artwork_info"}
    /\ pc' = "show_json"
    /\ UNCHANGED <<uploaded_file, model_installed, document, doc_open, nlp_loaded,
                   full_text, images, shown_text, shown_json, shown_images, error>>

ShowJson ==
    /\ pc = "show_json"
    /\ shown' = Append(shown, "json")
    /\ shown_json' = Append(shown_json, artwork_info)
    /\ pc' = "extract_images"
    /\ UNCHANGED <<uploaded_file, model_installed, document, doc_open, nlp_loaded,
                   full_text, doc_nlp, artwork_info, images, bound, shown_text,
                   shown_images, error>>

ExtractImages ==
    /\ pc = "extract_images"
    /\ ~extract_images(document).raised
    /\ shown' = Append(shown, "subheader")
    /\ images' = extract_images(document).images
    /\ bound' = bound \cup {"images"}
    /\ pc' = "show_images"
    /\ UNCHANGED <<uploaded_file, model_installed, document, doc_open, nlp_loaded,
                   full_text, doc_nlp, artwork_info, shown_text, shown_json,
                   shown_images, error>>

\* Image.open raises inside extract_images: nothing is returned, main is left.
ExtractImagesRaises ==
    /\ pc = "extract_images"
    /\ extract_images(document).raised
    /\ shown' = Append(shown, "subheader")
    /\ pc' = "raised"
    /\ error' = "image"
    /\ UNCHANGED <<uploaded_file, model_installed, document, doc_open, nlp_loaded,
                   full_text, doc_nlp, artwork_info, images, bound, shown_text,
                   shown_json, shown_images>>

\* st.columns and the display loop, then main returns.
ShowImages ==
    /\ pc = "show_images"
    /\ LET r == show_images(images)
       IN  /\ shown' = Append(shown, "columns") \o [k \in 1..Len(r.shown) |-> "image"]
           /\ shown_images' = r.shown
           /\ pc' = IF r.raised THEN "raised" ELSE "returned"
           /\ error' = IF r.raised THEN "index" ELSE error
    /\ UNCHANGED <<uploaded_file, model_installed, document, doc_open, nlp_loaded,
                   full_text, doc_nlp, artwork_info, images, bound, shown_text,
                   shown_json>>

\* main never closes the document: the handle goes when the runtime collects
\* the extractor, at some time after main was left.
Collect ==
    /\ pc \in {"returned", "raised"}
    /\ doc_open
    /\ doc_open' = FALSE
    /\ UNCHANGED <<uploaded_file, model_installed, pc, document, nlp_loaded, full_text,
                   doc_nlp, artwork_info, images, bound, shown, shown_text, shown_json,
                   shown_images, error>>

Next ==
    \/ MainNoUpload
    \/ OpenFails
    \/ Construct
    \/ ExtractText
    \/ ShowText
    \/ Classify
    \/ ShowJson
    \/ ExtractImages
    \/ ExtractImagesRaises
    \/ ShowImages
    \/ Collect

Spec == Init /\ [][Next]_vars

\* ============================================================ properties
\* What the properties are stated with: positions in the document, written
\* without the extraction loops.
Assigned(x) == x \in bound

Range(f) == {f[i] : i \in DOMAIN f}

\* The code points of pages 1..p-1.
RECURSIVE TextBefore(_, _)
TextBefore(doc, p) ==
    IF p <= 1 THEN 0 ELSE TextBefore(doc, p - 1) + Len(doc[p - 1].text)

\* t holds every page's text at the page's offset, and nothing else.
IsPagesInOrder(t, doc) ==
    /\ Len(t) = TextBefore(doc, Len(doc) + 1)
    /\ \A p \in 1..Len(doc) : \A j \in 1..Len(doc[p].text) :
          t[TextBefore(doc, p) + j] = doc[p].text[j]

\* The listing entries of pages 1..p-1.
RECURSIVE ListedBefore(_, _)
ListedBefore(doc, p) ==
    IF p <= 1 THEN 0 ELSE ListedBefore(doc, p - 1) + Len(doc[p - 1].images)

\* imgs holds the decode of every listing entry at the entry's rank.
IsListingsInOrder(imgs, doc) ==
    /\ Len(imgs) = ListedBefore(doc, Len(doc) + 1)
    /\ \A p \in 1..Len(doc) : \A j \in 1..Len(doc[p].images) :
          imgs[ListedBefore(doc, p) + j] = [pil |-> doc[p].images[j]]

\* sh shows imgs in order, image i (from 1) captioned i in column (i-1) mod 3.
IsDisplayOf(sh, imgs) ==
    /\ Len(sh) = Len(imgs)
    /\ \A i \in 1..Len(imgs) :
          sh[i] = [image |-> imgs[i], caption |-> i, column |-> (i - 1) % 3]

\* mot occurs in s at some offset.
Occurs(mot, s) ==
    \E i \in 1..Len(s) :
        /\ i + Len(mot) - 1 <= Len(s)
        /\ \A j \in 1..Len(mot) : s[i + j - 1] = mot[j]

\* The lower-cased sentence holds one of the keywords.
HasMot(mots, sent) == \E m \in 1..Len(mots) : Occurs(mots[m], Lower(sent))

Classified == Assigned("artwork_info") /\ nlp_loaded

\* C1: with a model loaded, every sentence is in dates exactly when its
\* lower-cased text holds a dates keyword and in techniques exactly when it
\* holds a techniques keyword, the two tests being independent; what is
\* stored is the sentence in its original case.
C1_SentenceChecksIndependent ==
    Classified =>
        \A k \in 1..Len(doc_nlp.sents) :
            LET sent == doc_nlp.sents[k]
            IN  /\ (sent \in artwork_info.dates) <=> HasMot(DateMots, sent)
                /\ (sent \in artwork_info.techniques) <=> HasMot(TechniqueMots, sent)

\* A classified text with a sentence in both categories, one in techniques
\* only, and none of them already lower case.
C1_Witness ==
    /\ Classified
    /\ \E a, b \in Range(doc_nlp.sents) :
          /\ a \in artwork_info.dates /\ a \in artwork_info.techniques
          /\ b \notin artwork_info.dates /\ b \in artwork_info.techniques
          /\ Lower(a) # a
          /\ Lower(b) # b

\* C2: with a model loaded, artistes is exactly the texts of the PER entities
\* and titres exactly the texts of the WORK_OF_ART entities; entities of other
\* types reach no category, and the sentence pass adds only sentences, and
\* only to dates and techniques.
C2_EntityPassExact ==
    Classified =>
        /\ artwork_info.artistes
              = {doc_nlp.ents[k].text : k \in {i \in 1..Len(doc_nlp.ents) :
                                                  doc_nlp.ents[i].label_ = "PER"}}
        /\ artwork_info.titres
              = {doc_nlp.ents[k].text : k \in {i \in 1..Len(doc_nlp.ents) :
                                                  doc_nlp.ents[i].label_ = "WORK_OF_ART"}}
        /\ artwork_info.dates
              = {sent \in Range(doc_nlp.sents) : HasMot(DateMots, sent)}
        /\ artwork_info.techniques
              = {sent \in Range(doc_nlp.sents) : HasMot(TechniqueMots, sent)}
        /\ artwork_info.dimensions = {}

\* A classified text whose entities include a PER, a WORK_OF_ART and a LOC.
C2_Witness ==
    /\ Classified
    /\ {"PER", "WORK_OF_ART", "LOC"} \subseteq {e.label_ : e \in Range(doc_nlp.ents)}
    /\ artwork_info.dates # {}

\* What main has extracted and shown of the text and the images is what the
\* document holds, whether or not a model is loaded.
ExtractionUnaffected ==
    /\ Assigned("full_text") => IsPagesInOrder(full_text, document)
    /\ pc \notin {"main", "extract_text", "show_text"} => shown_text = <<full_text>>
    /\ Assigned("images") => IsListingsInOrder(images, document)
    /\ pc = "returned" => IsDisplayOf(shown_images, images)
    /\ pc = "raised" =>
          /\ error = "image"
          /\ \E p \in 1..Len(document) : \E j \in 1..Len(document[p].images) :
                document[p].images[j] \notin Decodable

\* C3: when the model did not load, identify_artwork_info returns the
\* single-key error payload for every text and raises nothing, and text and
\* image extraction run and are shown as they are with a model.
C3_DegradedClassification ==
    (uploaded_file.given /\ uploaded_file.valid /\ pc # "main") =>
        /\ nlp_loaded = model_installed
        /\ ExtractionUnaffected
        /\ ~model_installed =>
              /\ Assigned("artwork_info") => artwork_info = ErreurPayload
              /\ pc \in {"extract_images", "show_images", "returned"}
                    => shown_json = <<ErreurPayload>>
              /\ pc = "show_json" => error = ""

\* A request without a model that ran to the end with text and images shown.
C3_Witness ==
    /\ ~model_installed
    /\ pc = "returned"
    /\ shown_json = <<ErreurPayload>>
    /\ shown_text # <<>> /\ shown_text[1] # <<>>
    /\ shown_images # <<>>

AnyResultShown == shown_text # <<>> \/ shown_json # <<>> \/ shown_images # <<>>

\* C4 as stated: no result is shown while a pipeline step of the request is
\* still to run.
C4_NothingShownBeforePipelineEnds ==
    AnyResultShown => {"full_text", "artwork_info", "images"} \subseteq bound

\* C4, amended: every result is shown only after the step that produces it,
\* and shows that step's value; the steps and the renderings alternate, the
\* text being shown before classification runs and the classification before
\* the images are extracted.
C4_EachResultAfterItsStep ==
    /\ shown_text # <<>> => Assigned("full_text") /\ shown_text = <<full_text>>
    /\ shown_json # <<>> => Assigned("artwork_info") /\ shown_json = <<artwork_info>>
    /\ shown_images # <<>> => Assigned("images")
    /\ Assigned("artwork_info") => shown_text # <<>>
    /\ Assigned("images") => shown_json # <<>>
    /\ bound \in {{}, {"extractor"}, {"extractor", "full_text"},
                  {"extractor", "full_text", "artwork_info"},
                  {"extractor", "full_text", "artwork_info", "images"}}

\* The text is on screen while classification and image extraction are pending.
C4_Witness ==
    /\ shown_text # <<>>
    /\ ~Assigned("artwork_info")
    /\ ~Assigned("images")
    /\ pc = "classify"

\* C5 as stated: once main is left, by return or by exception, the document
\* handle opened in the constructor is closed.
C5_DocumentReleasedAtEnd ==
    pc \in {"returned", "raised"} => ~doc_open

\* C6: the list extract_images returns holds one bitmap per listing entry of
\* every page, in page order and listing order within a page; the call fails
\* to return only when some listed entry cannot be decoded.
C6_ImagesInListingOrder ==
    /\ Assigned("images") =>
          /\ IsListingsInOrder(images, document)
          /\ (\A p \in 1..Len(document) : document[p].images = <<>>) => images = <<>>
    /\ error = "image" =>
          \E p \in 1..Len(document) : \E j \in 1..Len(document[p].images) :
              document[p].images[j] \notin Decodable

\* Two pages with images; the list returned has four entries, not all alike.
C6_Witness ==
    /\ Assigned("images")
    /\ Len(document) = 2
    /\ document[1].images # document[2].images
    /\ Len(images) = 4
    /\ images[1] # images[2]

\* C7: extract_text returns the pages' texts in page order, each once, with
\* nothing between them, and the document stays as parsed.
C7_TextIsPagesInOrder ==
    /\ Assigned("full_text") => IsPagesInOrder(full_text, document)
    /\ Assigned("extractor") => document = uploaded_file.pages

\* Two pages with different non-empty texts have been extracted.
C7_Witness ==
    /\ Assigned("full_text")
    /\ Len(document) = 2
    /\ document[1].text # <<>>
    /\ document[2].text # <<>>
    /\ document[1].text # document[2].text

\* C8: bytes that are no PDF make the load fail and the request with it:
\* nothing is extracted, nothing shown, and the exception leaves main.
C8_MalformedFailsWhole ==
    (uploaded_file.given /\ ~uploaded_file.valid /\ pc # "main") =>
        /\ pc = "raised"
        /\ error = "open"
        /\ bound = {}
        /\ ~doc_open
        /\ ~AnyResultShown
        /\ Range(shown) \cap {"text_area", "json", "image", "columns"} = {}

\* The request for an invalid file has ended.
C8_Witness ==
    /\ uploaded_file.given
    /\ ~uploaded_file.valid
    /\ pc = "raised"

\* C9: with a model loaded the result has the five category keys whatever
\* the text, dimensions is empty, and the empty text gives five empty sets
\* and raises nothing.
C9_FiveKeysDimensionsEmpty ==
    Classified =>
        /\ DOMAIN artwork_info = {"artistes", "titres", "dates", "techniques", "dimensions"}
        /\ artwork_info.dimensions = {}
        /\ full_text = <<>> =>
              /\ \A key \in DOMAIN artwork_info : artwork_info[key] = {}
              /\ pc = "show_json" => error = ""

\* A classified text that filled artistes, dates and techniques.
C9_Witness ==
    /\ Classified
    /\ artwork_info.artistes # {}
    /\ artwork_info.dates # {}
    /\ artwork_info.techniques # {}

\* C10: the display loop never subscripts past the columns created: image i
\* (from 0) goes to column i mod 3, below min(3, n + 1), and the images are
\* shown in extraction order captioned i + 1.
C10_ColumnIndexValid ==
    /\ error # "index"
    /\ pc = "returned" /\ Assigned("images") =>
          /\ IsDisplayOf(shown_images, images)
          /\ \A i \in 1..Len(shown_images) :
                shown_images[i].column < (IF Len(images) + 1 < 3 THEN Len(images) + 1 ELSE 3)

\* Four images shown: the fourth wraps to the first column.
C10_Witness ==
    /\ pc = "returned"
    /\ Len(shown_images) = 4
    /\ shown_images[4].column = 0

====
